---------------------------- MODULE Spec2Model ----------------------------
(***************************************************************************)
(* Model of the GHL -> Shopify media sync (sync.js, latest revision        *)
(* src/unnamed/part_001): fetch the asset list, group the assets by the    *)
(* product code found in their name, resolve each code to a product, diff  *)
(* against the product's existing media alts, attach the rest in batches.  *)
(* Every catalog call goes through gql, which retries with backoff.        *)
(*                                                                         *)
(* Strings are sequences of tokens (a code, a stem, an extension, blanks), *)
(* so that trim, toUpperCase, toLowerCase and the code regex are computed  *)
(* and not assumed.                                                        *)
(***************************************************************************)
EXTENDS Integers, Sequences, FiniteSets, TLC

VARIABLES
    env,               \* process.env: the accepted names' values
    settings,          \* what resolveEnv returned and what the boot banner shows
    DRY_RUN,           \* configuration, fixed at process start
    MEDIA_BATCH_SIZE,
    MAX_RETRIES,
    shape,             \* the JSON shape of the Asset Source's response body
    source,            \* the Asset Source's list (remote, unchanged between runs)
    media,             \* the Catalog Service: product -> sequence of media alts
    faults,            \* non-success responses the remote systems have given so far
    budget,            \* non-success responses the remote systems may give
    run,               \* which invocation of the process this is
    pc,                \* position of main
    fetchReqs,         \* requests issued to the Asset Source in this run
    mediaByCode,       \* main: Map code -> [mediaInput], in insertion order
    gi,                \* main: index of the group the for-of loop is at
    productId,         \* main: product of the current group
    existingAlts,      \* main: Set returned by getExistingMediaAlts
    toAttach,          \* main: the diff of the current group
    i,                 \* main: batch loop index
    chunk,             \* main: the batch being attached
    attachedTotal,
    skippedTotal,
    call,              \* the gql call in progress
    net,               \* network requests in flight
    timer,             \* a backoff sleep is pending
    batches,           \* the batches handed to attachMediaBatch for the current group
    mutations,         \* create-media requests issued in this run
    applied,           \* product -> alts the Catalog Service added in this run
    warnings,          \* codes for which no product was found in this run
    calls,             \* the gql calls main has begun in this run, in order
    failure,           \* the error the top-level catch received
    start,             \* what the catalog looked like when this run started
    prev               \* what the previous invocation left behind

vars == << env, settings, DRY_RUN, MEDIA_BATCH_SIZE, MAX_RETRIES, shape, source, media, faults, budget, run, pc,
           fetchReqs, mediaByCode, gi, productId, existingAlts, toAttach, i, chunk,
           attachedTotal, skippedTotal, call, net, timer, batches, mutations,
           applied, warnings, calls, failure, start, prev >>

(***************************************************************************)
(* Bounds of the model.                                                    *)
(***************************************************************************)
MaxFiles == 3      \* assets in the Asset Source's list
MaxBatch == 2      \* MEDIA_BATCH_SIZE ranges over 0..MaxBatch
MaxFaults == 2     \* non-success responses over a behaviour of Spec
MaxRetries == 3    \* MAX_RETRIES ranges over 0..MaxRetries in SpecRpc

(***************************************************************************)
(* Program constants.  PageSize is media(first:250), scaled down so that a *)
(* product can hold more media than one listing returns.                   *)
(***************************************************************************)
PageSize == 2
BaseDelay == 600

RetryableStatus == {429, 500, 502, 503, 504}

\* the invocations of the process: a run and its re-run
Runs == {1, 2}

(***************************************************************************)
(* Strings as token sequences.                                             *)
(***************************************************************************)
Blank == " "

Max(a, b) == IF a >= b THEN a ELSE b

Min(a, b) == IF a <= b THEN a ELSE b

RECURSIVE Pow2(_)
Pow2(n) == IF n <= 0 THEN 1 ELSE 2 * Pow2(n - 1)

RECURSIVE TrimStart(_)
TrimStart(s) ==
    IF s # << >> /\ Head(s) = Blank THEN TrimStart(Tail(s)) ELSE s

RECURSIVE TrimEnd(_)
TrimEnd(s) ==
    IF s # << >> /\ s[Len(s)] = Blank THEN TrimEnd(SubSeq(s, 1, Len(s) - 1)) ELSE s

\* String.prototype.trim
Trim(s) == TrimEnd(TrimStart(s))

\* toUpperCase / toLowerCase of one token
UpperTok(t) ==
    CASE t = "cs1" -> "CS1"
      [] t = "cs2" -> "CS2"
      [] t = "cs3" -> "CS3"
      [] OTHER -> t

LowerTok(t) ==
    CASE t = "CS1" -> "cs1"
      [] t = "CS2" -> "cs2"
      [] t = "CS3" -> "cs3"
      [] OTHER -> t

\* the tokens /^CS\d+/i matches
CodeTokens == {"CS1", "cs1", "CS2", "cs2", "CS3", "cs3"}

NoCode == "null"

\* extractCode: the match must start the string (^), and is uppercased
extractCode(str) ==
    IF str # << >> /\ Head(str) \in CodeTokens THEN UpperTok(Head(str)) ELSE NoCode

\* deriveHandleFromCode with HANDLE_TEMPLATE = '${codeLower}'
deriveHandleFromCode(code) == LowerTok(code)

IMAGE_EXT == {".jpg", ".jpeg", ".png", ".webp", ".gif"}
VIDEO_EXT == {".mp4", ".mov", ".webm", ".m4v"}

\* extOf: the extension must end the string ($)
extOf(n) ==
    IF n # << >> /\ n[Len(n)] \in (IMAGE_EXT \cup VIDEO_EXT) THEN n[Len(n)] ELSE ""

\* the last path segment of the URL: what follows the last "/"
RECURSIVE filenameFromUrl(_)
filenameFromUrl(url) ==
    IF \E k \in 1 .. Len(url) : url[k] = "/"
    THEN filenameFromUrl(Tail(url))
    ELSE url

\* f.name || filenameFromUrl(f.url)
NameOf(f) == IF f.name # << >> THEN f.name ELSE filenameFromUrl(f.url)

guessMediaType(f) ==
    LET ext == extOf(NameOf(f))
    IN  IF f.mime = "image/" \/ ext \in IMAGE_EXT THEN "IMAGE"
        ELSE IF f.mime = "video/" \/ ext \in VIDEO_EXT THEN "VIDEO"
        ELSE "EXTERNAL_VIDEO"

(***************************************************************************)
(* The remote systems' data.                                               *)
(***************************************************************************)
Products == {"p1", "p2"}
NoProduct == "null"

\* product(handle:$handle){ id }
ProductByHandle(handle) == IF handle = "cs1" THEN "p1" ELSE NoProduct

\* products(first:1, query:"sku:<code>")
ProductBySku(code) ==
    CASE code = "CS1" -> "p1"
      [] code = "CS2" -> "p2"
      [] OTHER -> NoProduct

\* the assets the Asset Source may list, in the order it lists them
Master ==
    << [url |-> << "https:", "/", "f1" >>, name |-> << "CS1", "_a", ".jpg" >>, mime |-> "image/"],
       [url |-> << "https:", "/", "f2" >>, name |-> << "CS1", "_a", ".jpg", Blank >>, mime |-> ""],
       [url |-> << "https:", "/", "f3" >>, name |-> << "cs1", "_b", ".mp4" >>, mime |-> "video/"],
       [url |-> << "https:", "/", "f5" >>, name |-> << "CS3", "_d" >>, mime |-> ""],
       \* no name: the name is the URL's last segment; a video by its declared type
       [url |-> << "https:", "/", "CS2", "_c", ".jpg" >>, name |-> << >>, mime |-> "video/"],
       \* a relative path that starts with a code, under a name without one
       [url |-> << "CS1", "/", "f6" >>, name |-> << "widget", ".png" >>, mime |-> "image/"],
       \* an element with none of url, link, path
       [url |-> << >>, name |-> << "CS2", "_e", ".jpg" >>, mime |-> ""] >>

RECURSIVE PickInOrder(_, _)
PickInOrder(s, keep) ==
    IF s = << >> THEN << >>
    ELSE LET rest == PickInOrder(Tail(s), { k - 1 : k \in keep \ {1} })
         IN  IF 1 \in keep THEN << Head(s) >> \o rest ELSE rest

\* the elements of Master that supply a location
Located == { k \in 1 .. Len(Master) : Master[k].url # << >> }

SourceLists ==
    { PickInOrder(Master, keep) :
        keep \in { k \in SUBSET Located : Cardinality(k) <= MaxFiles } }

\* the response bodies: an array of located elements; an object with a files
\* array, which may hold an element without location; anything else
SourceBodies ==
    { [shape |-> "array", list |-> l] : l \in SourceLists }
    \cup { [shape |-> "files", list |-> PickInOrder(Master, keep)] :
             keep \in { {3, 5}, {5, 7}, {7} } }
    \cup { [shape |-> "other", list |-> << >>] }

\* media the products may hold before the first run: none, or a full page on p1
\* (one alt is an asset's name with a blank before it) and a media without alt on p2
InitialMedia ==
    { [p \in Products |-> << >>],
      [p \in Products |->
          IF p = "p1" THEN << << Blank, "CS1", "_a", ".jpg" >>, << "old", ".jpg" >> >>
          ELSE << << >> >>] }

(***************************************************************************)
(* fetchGhlFiles' normalisation and main's grouping.                       *)
(***************************************************************************)
\* .filter(f => f && (f.url || f.link || f.path)).map(f => ({url, name, mime}))
RECURSIVE Normalize(_)
Normalize(list) ==
    IF list = << >> THEN << >>
    ELSE LET f == Head(list)
         IN  IF f.url = << >> THEN Normalize(Tail(list))
             ELSE << [url |-> f.url, name |-> NameOf(f), mime |-> f.mime] >>
                  \o Normalize(Tail(list))

\* f.name || f.url
NameOrUrl(f) == IF f.name # << >> THEN f.name ELSE f.url

MediaInput(f) ==
    [alt |-> Trim(NameOf(f)),
     mediaContentType |-> guessMediaType(f),
     originalSource |-> f.url]

\* the entry set anew for every asset instead of pushed to
MapSetOnly(map, code, mediaInput) ==
    IF \E k \in 1 .. Len(map) : map[k].code = code
    THEN [k \in 1 .. Len(map) |->
            IF map[k].code = code
            THEN [map[k] EXCEPT !.medias = << mediaInput >>]
            ELSE map[k]]
    ELSE Append(map, [code |-> code, medias |-> << mediaInput >>])

\* if (!mediaByCode.has(code)) mediaByCode.set(code, []); mediaByCode.get(code).push(mediaInput)
MapPush(map, code, mediaInput) ==
    IF \E k \in 1 .. Len(map) : map[k].code = code
    THEN [k \in 1 .. Len(map) |->
            IF map[k].code = code
            THEN [map[k] EXCEPT !.medias = Append(@, mediaInput)]
            ELSE map[k]]
    ELSE Append(map, [code |-> code, medias |-> << mediaInput >>])

RECURSIVE GroupInto(_, _)
GroupInto(map, fs) ==
    IF fs = << >> THEN map
    ELSE LET f == Head(fs)
             code == extractCode(NameOrUrl(f))
         IN  IF code = NoCode THEN GroupInto(map, Tail(fs))
             ELSE GroupInto(MapPush(map, code, MediaInput(f)), Tail(fs))

GroupByCode(fs) == GroupInto(<< >>, fs)

RECURSIVE Alts(_)
Alts(medias) ==
    IF medias = << >> THEN << >> ELSE << Head(medias).alt >> \o Alts(Tail(medias))

Range(s) == { s[k] : k \in 1 .. Len(s) }

RECURSIVE Select(_, _)
Select(s, keep) ==
    IF s = << >> THEN << >>
    ELSE IF Head(s) \in keep THEN << Head(s) >> \o Select(Tail(s), keep)
    ELSE Select(Tail(s), keep)

\* the alts taken as the Catalog Service returns them, untrimmed
ExistingAltSetRaw(edges) == Range(edges) \ { << >> }

\* new Set(edges.map(e => (e.node?.alt || '').trim()).filter(s => s.length))
ExistingAltSet(edges) == { Trim(a) : a \in Range(edges) } \ { << >> }

\* the diff left out, as in the revision that attached without diffing
DiffNothing(allMedias, existing) == allMedias

\* allMedias.filter(m => !existingAlts.has((m.alt || '').trim()))
DiffMedias(allMedias, existing) ==
    Select(allMedias, { m \in Range(allMedias) : Trim(m.alt) \notin existing })

\* a slice that takes one element too many
SliceOneMore(s, from, to) == SubSeq(s, from + 1, Min(to + 1, Len(s)))

\* Array.prototype.slice(from, to) for 0 <= from <= to
Slice(s, from, to) == SubSeq(s, from + 1, Min(to, Len(s)))

\* media(first:250){ edges{ node{ alt } } }
FirstPage(list) == SubSeq(list, 1, Min(PageSize, Len(list)))

(***************************************************************************)
(* gql: one request per attempt, retry with backoff.                       *)
(***************************************************************************)
NoData == [product |-> NoProduct, alts |-> << >>, userErrors |-> FALSE]
NoError == [from |-> "none", status |-> 0, payload |-> "none"]

IdleCall ==
    [op |-> "none", state |-> "idle", attempt |-> 0, reqs |-> 0, waits |-> << >>,
     resps |-> << >>, applied |-> 0, data |-> NoData, error |-> NoError]

\* gql(query, variables, attempt = 1): the first fetch is issued at once
NewCall(op) ==
    [IdleCall EXCEPT !.op = op, !.state = "inflight", !.attempt = 1, !.reqs = 1]

\* res.ok
IsOk(status) == status >= 200 /\ status <= 299

\* every status taken for a transient one
RetryableAny(status) == TRUE

\* [429, 500, 502, 503, 504].includes(res.status)
Retryable(status) == status \in RetryableStatus

\* one attempt too many
MayRetryInclusive(attempt) == attempt <= MAX_RETRIES

\* attempt < MAX_RETRIES
MayRetry(attempt) == attempt < MAX_RETRIES

\* the exponent off by one
BackoffOffByOne(attempt) == BaseDelay * Pow2(attempt)

\* 600 * 2 ** (attempt - 1)
BackoffDelay(attempt) == BaseDelay * Pow2(attempt - 1)

\* what gql does with a response: "retry", "throw" or "return"
GqlOutcome(r, attempt) ==
    IF ~IsOk(r.status)
    THEN IF Retryable(r.status) /\ MayRetry(attempt) THEN "retry" ELSE "throw"
    ELSE IF r.errors
    THEN IF MayRetry(attempt) THEN "retry" ELSE "throw"
    ELSE "return"

GqlError(r) ==
    IF ~IsOk(r.status)
    THEN [from |-> "gql", status |-> r.status, payload |-> "body"]
    ELSE [from |-> "gql", status |-> r.status, payload |-> "errors"]

(***************************************************************************)
(* The responses a remote system may give.  A create-media request that is *)
(* answered with a 5xx or with an errors payload may or may not have been  *)
(* applied by the Catalog Service; a clean answer means it was applied.    *)
(***************************************************************************)
CleanResponse(op) ==
    [status |-> 200, errors |-> FALSE, userErrors |-> FALSE, effect |-> (op = "createMedia")]

FaultResponses(op) ==
    { [status |-> 503, errors |-> FALSE, userErrors |-> FALSE, effect |-> e] :
         e \in IF op = "createMedia" THEN BOOLEAN ELSE {FALSE} }
    \cup
    { [status |-> 200, errors |-> TRUE, userErrors |-> FALSE, effect |-> e] :
         e \in IF op = "createMedia" THEN BOOLEAN ELSE {FALSE} }
    \cup
    { [status |-> 404, errors |-> FALSE, userErrors |-> FALSE, effect |-> FALSE] }
    \cup
    ( IF op = "createMedia"
      THEN { [status |-> 200, errors |-> FALSE, userErrors |-> TRUE, effect |-> FALSE] }
      ELSE { } )

CurrentCode == mediaByCode[gi].code

\* json.data of a clean response
DataFor(op, catalog) ==
    CASE op = "byHandle" ->
            [NoData EXCEPT !.product = ProductByHandle(deriveHandleFromCode(CurrentCode))]
      [] op = "bySku" -> [NoData EXCEPT !.product = ProductBySku(CurrentCode)]
      [] op = "listMedia" -> [NoData EXCEPT !.alts = FirstPage(catalog[productId])]
      [] OTHER -> NoData

(***************************************************************************)
(* The environment, resolveEnv and the boot banner.  A value is a sequence *)
(* of characters; an unset name has the empty value.                       *)
(***************************************************************************)
SHOP_KEYS == << "SHOPIFY_STORE_DOMAIN", "SHOPIFY_SHOP_DOMAIN" >>
TOKEN_KEYS == << "SHOPIFY_ADMIN_TOKEN", "SHOPIFY_ADMIN_API_TOKEN" >>
ENDPOINT_KEYS == << "GHL_FILES_ENDPOINT" >>
KEY_KEYS == << "GHL_API_KEY" >>

EnvNames == Range(SHOP_KEYS) \cup Range(TOKEN_KEYS) \cup Range(ENDPOINT_KEYS) \cup Range(KEY_KEYS)

\* a secret of n characters, all different
Secret(n) == [k \in 1 .. n |-> << "a", "b", "c", "d", "e", "f", "g", "h" >>[k]]

\* the values a name may have: unset, blank, set (with blanks around it)
ShopValues ==
    { [first |-> << "shop" >>, second |-> << >>],
      [first |-> << Blank >>, second |-> << Blank, "other", Blank >>],
      [first |-> << "shop" >>, second |-> << "other" >>],
      [first |-> << Blank >>, second |-> << >>] }

TokenValues ==
    { [first |-> Secret(8), second |-> << >>],
      [first |-> << >>, second |-> << Blank >> \o Secret(6)],
      [first |-> Secret(7), second |-> Secret(3)],
      [first |-> << >>, second |-> Secret(3)],
      [first |-> << >>, second |-> << Blank, Blank >>] }

EndpointValues == { << "https:", "/", "files" >>, << >> }

KeyValues == { << >>, Secret(7) \o << Blank >>, Secret(2) }

EnvOf(shop, token, endpoint, key) ==
    [n \in EnvNames |->
        CASE n = SHOP_KEYS[1] -> shop.first
          [] n = SHOP_KEYS[2] -> shop.second
          [] n = TOKEN_KEYS[1] -> token.first
          [] n = TOKEN_KEYS[2] -> token.second
          [] n = ENDPOINT_KEYS[1] -> endpoint
          [] OTHER -> key]

Envs ==
    { EnvOf(shop, token, endpoint, key) :
        shop \in ShopValues, token \in TokenValues,
        endpoint \in EndpointValues, key \in KeyValues }

\* every required setting under its first name, no key for the Asset Source
DefaultEnv ==
    EnvOf([first |-> << "shop" >>, second |-> << >>],
          [first |-> Secret(8), second |-> << >>],
          << "https:", "/", "files" >>, << >>)

\* a prefix of the secret longer than the first three characters
MaskRevealing(s) ==
    IF s = << >> THEN << "(empty)" >>
    ELSE IF Len(s) < 6 THEN << "*", "*", "*" >>
    ELSE SubSeq(s, 1, 3) \o << "*", "*", "*" >> \o SubSeq(s, Len(s) - 2, Len(s))

\* mask
mask(s) ==
    IF s = << >> THEN << "(empty)" >>
    ELSE IF Len(s) <= 6 THEN << "*", "*", "*" >>
    ELSE SubSeq(s, 1, 3) \o << "*", "*", "*" >> \o SubSeq(s, Len(s) - 2, Len(s))

\* the first name taken without looking at the others
resolveFirstOnly(e, keys, required) ==
    IF keys = << >> THEN [value |-> << >>, source |-> "", missing |-> required]
    ELSE [value |-> Trim(e[Head(keys)]), source |-> Head(keys),
          missing |-> required /\ Trim(e[Head(keys)]) = << >>]

\* resolveEnv(keys, { required })
RECURSIVE resolveEnv(_, _, _)
resolveEnv(e, keys, required) ==
    IF keys = << >> THEN [value |-> << >>, source |-> "", missing |-> required]
    ELSE IF e[Head(keys)] # << >> /\ Trim(e[Head(keys)]) # << >>
    THEN [value |-> Trim(e[Head(keys)]), source |-> Head(keys), missing |-> FALSE]
    ELSE resolveEnv(e, Tail(keys), required)

NoSettings ==
    [SHOP |-> << >>, SHOP_SRC |-> "", TOKEN |-> << >>, TOKEN_SRC |-> "",
     GHL_FILES_ENDPOINT |-> << >>, GHL_ENDPOINT_SRC |-> "",
     GHL_API_KEY |-> << >>, GHL_KEY_SRC |-> "",
     missing |-> << >>, tokenShown |-> << >>, keyShown |-> << >>]

\* the module's top-level code up to the banner: the four resolveEnv calls in
\* order, the first required setting without value throws
ResolveAll(e) ==
    LET shop == resolveEnv(e, SHOP_KEYS, TRUE)
        token == resolveEnv(e, TOKEN_KEYS, TRUE)
        endpoint == resolveEnv(e, ENDPOINT_KEYS, TRUE)
        key == resolveEnv(e, KEY_KEYS, FALSE)
    IN  IF shop.missing THEN [NoSettings EXCEPT !.missing = SHOP_KEYS]
        ELSE IF token.missing
        THEN [NoSettings EXCEPT !.SHOP = shop.value, !.SHOP_SRC = shop.source,
                                !.missing = TOKEN_KEYS]
        ELSE IF endpoint.missing
        THEN [NoSettings EXCEPT !.SHOP = shop.value, !.SHOP_SRC = shop.source,
                                !.TOKEN = token.value, !.TOKEN_SRC = token.source,
                                !.missing = ENDPOINT_KEYS]
        ELSE [SHOP |-> shop.value, SHOP_SRC |-> shop.source,
              TOKEN |-> token.value, TOKEN_SRC |-> token.source,
              GHL_FILES_ENDPOINT |-> endpoint.value, GHL_ENDPOINT_SRC |-> endpoint.source,
              GHL_API_KEY |-> key.value, GHL_KEY_SRC |-> key.source,
              missing |-> << >>,
              tokenShown |-> mask(token.value),
              keyShown |-> IF key.source # "" THEN mask(key.value) ELSE << "(not set)" >>]

(***************************************************************************)
(* Initial states.                                                         *)
(***************************************************************************)
\* the configurations: each setting varied with the others at their largest;
\* attempts beyond the number of faults are never made.  The remote systems may
\* give MaxFaults non-success answers under every MAX_RETRIES, and one under the
\* other settings
Configs ==
    { [dry |-> FALSE, batch |-> b, retries |-> MaxFaults, faults |-> 1] :
         b \in 0 .. MaxBatch - 1 }
    \cup { [dry |-> FALSE, batch |-> MaxBatch, retries |-> r, faults |-> MaxFaults] :
             r \in 0 .. MaxFaults }
    \cup { [dry |-> TRUE, batch |-> MaxBatch, retries |-> MaxFaults, faults |-> 1] }

NoApplied == [p \in Products |-> { }]

StartOf(catalog) ==
    [empty |-> \A p \in Products : catalog[p] = << >>,
     fits |-> \A p \in Products : Len(catalog[p]) <= PageSize]

NoPrev ==
    [status |-> "none", attached |-> 0, skipped |-> 0, mutations |-> 0,
     applied |-> NoApplied, startEmpty |-> FALSE]

\* the process has just started
Fresh ==
    /\ settings = NoSettings
    /\ faults = 0
    /\ run = 1
    /\ pc = "boot"
    /\ fetchReqs = 0
    /\ mediaByCode = << >>
    /\ gi = 0
    /\ productId = NoProduct
    /\ existingAlts = { }
    /\ toAttach = << >>
    /\ i = 0
    /\ chunk = << >>
    /\ attachedTotal = 0
    /\ skippedTotal = 0
    /\ call = IdleCall
    /\ net = 0
    /\ timer = FALSE
    /\ batches = << >>
    /\ mutations = 0
    /\ applied = NoApplied
    /\ warnings = { }
    /\ calls = << >>
    /\ failure = NoError
    /\ start = StartOf(media)
    /\ prev = NoPrev

\* every configuration, body and catalog under the default environment; every
\* other environment with one configuration, one asset and an empty catalog
Init ==
    /\ \/ /\ env = DefaultEnv
          /\ \E c \in Configs :
                /\ DRY_RUN = c.dry
                /\ MEDIA_BATCH_SIZE = c.batch
                /\ MAX_RETRIES = c.retries
                /\ budget = c.faults
          /\ \E b \in SourceBodies :
                /\ shape = b.shape
                /\ source = b.list
          /\ media \in InitialMedia
       \/ /\ env \in Envs \ {DefaultEnv}
          /\ DRY_RUN = FALSE
          /\ MEDIA_BATCH_SIZE = MaxBatch
          /\ MAX_RETRIES = MaxFaults
          /\ budget = 1
          /\ shape = "array"
          /\ source = PickInOrder(Master, {1})
          /\ media = [p \in Products |-> << >>]
    /\ Fresh

\* one asset list (a product by handle, one by SKU, none), every MAX_RETRIES, and
\* as many faults as exhausting the attempts takes
RpcInit ==
    /\ env = DefaultEnv
    /\ DRY_RUN = FALSE
    /\ MEDIA_BATCH_SIZE = MaxBatch
    /\ MAX_RETRIES \in 0 .. MaxRetries
    /\ shape = "array"
    /\ source = PickInOrder(Master, {1, 4, 5})
    /\ media = [p \in Products |-> << >>]
    /\ budget = MaxRetries
    /\ Fresh

config == << env, DRY_RUN, MEDIA_BATCH_SIZE, MAX_RETRIES, shape, source, budget >>
groupVars == << productId, existingAlts, toAttach, i, chunk, batches >>
totals == << attachedTotal, skippedTotal >>
history == << run, start, prev >>

(***************************************************************************)
(* main, one action per stretch of code between two awaits.                *)
(***************************************************************************)
\* the module's top-level code: resolve the settings (a required one without
\* value throws, uncaught), print the banner, enter main
Boot ==
    /\ pc = "boot"
    /\ settings' = ResolveAll(env)
    /\ IF ResolveAll(env).missing # << >>
       THEN /\ pc' = "failed"
            /\ failure' = [from |-> "config", status |-> 0, payload |-> "missing"]
       ELSE /\ pc' = "start"
            /\ UNCHANGED failure
    /\ UNCHANGED << config, media, faults, fetchReqs, mediaByCode, gi, groupVars, totals,
                    call, net, timer, mutations, applied, warnings, history, calls >>

\* fetchGhlFiles: fetch(GHL_FILES_ENDPOINT, { headers })
StartFetch ==
    /\ pc = "start"
    /\ pc' = "fetching"
    /\ net' = net + 1
    /\ fetchReqs' = fetchReqs + 1
    /\ UNCHANGED << config, media, faults, mediaByCode, gi, groupVars, totals, call,
                    timer, mutations, applied, warnings, failure, history, calls >>
    /\ UNCHANGED settings

\* nothing to do taken for an error
AfterFetchStrict(fs) ==
    IF GroupByCode(fs) = << >> THEN [pc |-> "failed", map |-> << >>]
    ELSE [pc |-> "nextGroup", map |-> GroupByCode(fs)]

\* what main does with the normalised list, up to the per-group loop
AfterFetch(fs) ==
    IF fs = << >> THEN [pc |-> "done", map |-> << >>]
    ELSE IF GroupByCode(fs) = << >> THEN [pc |-> "done", map |-> << >>]
    ELSE [pc |-> "nextGroup", map |-> GroupByCode(fs)]

\* the Asset Source answers; !res.ok throws, there is no retry; a body that is
\* neither an array nor an object with a files array throws
FetchResponse ==
    /\ pc = "fetching"
    /\ \E status \in {200, 503, 404} :
          /\ status # 200 => faults < budget
          /\ faults' = IF status # 200 THEN faults + 1 ELSE faults
          /\ IF ~IsOk(status)
             THEN /\ pc' = "failed"
                  /\ failure' = [from |-> "ghl", status |-> status, payload |-> "body"]
                  /\ UNCHANGED << mediaByCode, gi >>
             ELSE IF shape \notin {"array", "files"}
             THEN /\ pc' = "failed"
                  /\ failure' = [from |-> "ghl", status |-> status, payload |-> "shape"]
                  /\ UNCHANGED << mediaByCode, gi >>
             ELSE LET next == AfterFetch(Normalize(source))
                  IN  /\ pc' = next.pc
                      /\ mediaByCode' = next.map
                      /\ gi' = 1
                      /\ UNCHANGED failure
    /\ net' = net - 1
    /\ UNCHANGED << config, media, fetchReqs, groupVars, totals, call, timer,
                    mutations, applied, warnings, history, calls >>
    /\ UNCHANGED settings

\* for (const [code, allMedias] of mediaByCode.entries()): the next group, or the summary
NextGroup ==
    /\ pc = "nextGroup"
    /\ IF gi > Len(mediaByCode)
       THEN /\ pc' = "done"
            /\ UNCHANGED << call, net, calls >>
       ELSE IF deriveHandleFromCode(CurrentCode) # ""
       THEN /\ pc' = "byHandle"
            /\ call' = NewCall("byHandle")
            /\ calls' = Append(calls, [op |-> "byHandle", code |-> CurrentCode])
            /\ net' = net + 1
       ELSE /\ pc' = "bySku"
            /\ call' = NewCall("bySku")
            /\ calls' = Append(calls, [op |-> "bySku", code |-> CurrentCode])
            /\ net' = net + 1
    /\ UNCHANGED << config, media, faults, fetchReqs, mediaByCode, gi, groupVars, totals,
                    timer, mutations, applied, warnings, failure, history >>
    /\ UNCHANGED settings

\* the handle lookup's result ignored
HandleMiss(d) == FALSE

\* if (d.product?.id) return d.product.id
HandleHit(d) == d.product # NoProduct

\* findProductIdByHandleOrSku after the handle lookup returned
ByHandleReturn ==
    /\ pc = "byHandle"
    /\ call.state = "ok"
    /\ IF HandleHit(call.data)
       THEN /\ productId' = call.data.product
            /\ pc' = "list"
            /\ call' = NewCall("listMedia")
            /\ calls' = Append(calls, [op |-> "listMedia", code |-> CurrentCode])
       ELSE /\ pc' = "bySku"
            /\ call' = NewCall("bySku")
            /\ calls' = Append(calls, [op |-> "bySku", code |-> CurrentCode])
            /\ UNCHANGED productId
    /\ net' = net + 1
    /\ UNCHANGED << config, media, faults, fetchReqs, mediaByCode, gi, existingAlts,
                    toAttach, i, chunk, batches, totals, timer, mutations, applied,
                    warnings, failure, history >>
    /\ UNCHANGED settings

\* the null result not tested
AnyNode(d) == TRUE

\* if (node?.id) return node.id; return null -- and main's if (!productId) continue
SkuHit(d) == d.product # NoProduct

\* findProductIdByHandleOrSku after the SKU lookup returned; no product: warn, continue
BySkuReturn ==
    /\ pc = "bySku"
    /\ call.state = "ok"
    /\ IF SkuHit(call.data)
       THEN /\ productId' = call.data.product
            /\ pc' = "list"
            /\ call' = NewCall("listMedia")
            /\ calls' = Append(calls, [op |-> "listMedia", code |-> CurrentCode])
            /\ net' = net + 1
            /\ UNCHANGED << gi, warnings >>
       ELSE /\ warnings' = warnings \cup {CurrentCode}
            /\ gi' = gi + 1
            /\ pc' = "nextGroup"
            /\ call' = IdleCall
            /\ productId' = NoProduct
            /\ UNCHANGED << net, calls >>
    /\ UNCHANGED << config, media, faults, fetchReqs, mediaByCode, existingAlts,
                    toAttach, i, chunk, batches, totals, timer, mutations, applied,
                    failure, history >>
    /\ UNCHANGED settings

\* the simulate-only flag not consulted
SkipAttachIfEmpty(diff) == diff = << >>

\* if (!toAttach.length) continue; if (DRY_RUN) continue
SkipAttach(diff) == diff = << >> \/ DRY_RUN

\* getExistingMediaAlts returned: the diff, the skipped count, nothing new, DRY_RUN
ListReturn ==
    /\ pc = "list"
    /\ call.state = "ok"
    /\ LET existing == ExistingAltSet(call.data.alts)
           allMedias == mediaByCode[gi].medias
           diff == DiffMedias(allMedias, existing)
       IN  /\ existingAlts' = existing
           /\ toAttach' = diff
           /\ skippedTotal' = skippedTotal + (Len(allMedias) - Len(diff))
           /\ IF SkipAttach(diff)
              THEN /\ gi' = gi + 1
                   /\ pc' = "nextGroup"
              ELSE /\ pc' = "loop"
                   /\ UNCHANGED gi
    /\ i' = 0
    /\ chunk' = << >>
    /\ batches' = << >>
    /\ call' = IdleCall
    /\ UNCHANGED << config, media, faults, fetchReqs, mediaByCode, productId,
                    attachedTotal, net, timer, mutations, applied, warnings, failure,
                    history, calls >>
    /\ UNCHANGED settings

\* attachMediaBatch called without await: the loop goes on while the request is in flight
LoopHeadNoAwait ==
    /\ pc = "loop"
    /\ IF i < Len(toAttach)
       THEN LET c == Slice(toAttach, i, i + MEDIA_BATCH_SIZE)
            IN  /\ chunk' = c
                /\ IF c = << >>
                   THEN \* if (!medias.length) return
                        /\ pc' = "attached"
                        /\ UNCHANGED << call, net, mutations, batches, calls >>
                   ELSE /\ pc' = "attached"
                        /\ call' = NewCall("createMedia")
                        /\ calls' = Append(calls, [op |-> "createMedia", code |-> CurrentCode])
                        /\ net' = net + 1
                        /\ mutations' = mutations + 1
                        /\ batches' = Append(batches, c)
                /\ UNCHANGED gi
       ELSE /\ gi' = gi + 1
            /\ pc' = "nextGroup"
            /\ UNCHANGED << chunk, call, net, mutations, batches, calls >>
    /\ UNCHANGED << config, media, faults, fetchReqs, mediaByCode, productId,
                    existingAlts, toAttach, i, totals, timer, applied, warnings, failure,
                    history >>
    /\ UNCHANGED settings

\* for (let i = 0; i < toAttach.length; ...): slice the chunk, call attachMediaBatch
LoopHead ==
    /\ pc = "loop"
    /\ IF i < Len(toAttach)
       THEN LET c == Slice(toAttach, i, i + MEDIA_BATCH_SIZE)
            IN  /\ chunk' = c
                /\ IF c = << >>
                   THEN \* if (!medias.length) return
                        /\ pc' = "attached"
                        /\ UNCHANGED << call, net, mutations, batches, calls >>
                   ELSE /\ pc' = "attach"
                        /\ call' = NewCall("createMedia")
                        /\ calls' = Append(calls, [op |-> "createMedia", code |-> CurrentCode])
                        /\ net' = net + 1
                        /\ mutations' = mutations + 1
                        /\ batches' = Append(batches, c)
                /\ UNCHANGED gi
       ELSE /\ gi' = gi + 1
            /\ pc' = "nextGroup"
            /\ UNCHANGED << chunk, call, net, mutations, batches, calls >>
    /\ UNCHANGED << config, media, faults, fetchReqs, mediaByCode, productId,
                    existingAlts, toAttach, i, totals, timer, applied, warnings, failure,
                    history >>
    /\ UNCHANGED settings

\* mediaUserErrors not looked at
NoUserErrors(d) == FALSE

\* const errs = d.productCreateMedia?.mediaUserErrors || []; if (errs.length) throw
HasUserErrors(d) == d.userErrors

\* attachMediaBatch after gql returned: mediaUserErrors throw
AttachReturn ==
    /\ pc = "attach"
    /\ call.state = "ok"
    /\ IF HasUserErrors(call.data)
       THEN /\ pc' = "failed"
            /\ failure' = [from |-> "mediaUserErrors", status |-> 200, payload |-> "userErrors"]
       ELSE /\ pc' = "attached"
            /\ UNCHANGED failure
    /\ call' = IdleCall
    /\ UNCHANGED << config, media, faults, fetchReqs, mediaByCode, gi, groupVars, totals,
                    net, timer, mutations, applied, warnings, history, calls >>
    /\ UNCHANGED settings

\* the whole diff counted as attached after every batch
AttachedWholeDiff ==
    /\ pc = "attached"
    /\ attachedTotal' = attachedTotal + Len(toAttach)
    /\ i' = i + MEDIA_BATCH_SIZE
    /\ pc' = "loop"
    /\ UNCHANGED << config, media, faults, fetchReqs, mediaByCode, gi, productId,
                    existingAlts, toAttach, chunk, batches, skippedTotal, call, net,
                    timer, mutations, applied, warnings, failure, history, calls >>
    /\ UNCHANGED settings

\* attachedTotal += chunk.length; i += MEDIA_BATCH_SIZE
Attached ==
    /\ pc = "attached"
    /\ attachedTotal' = attachedTotal + Len(chunk)
    /\ i' = i + MEDIA_BATCH_SIZE
    /\ pc' = "loop"
    /\ UNCHANGED << config, media, faults, fetchReqs, mediaByCode, gi, productId,
                    existingAlts, toAttach, chunk, batches, skippedTotal, call, net,
                    timer, mutations, applied, warnings, failure, history, calls >>
    /\ UNCHANGED settings

\* the error caught inside the loop: logged, and the next group is processed
AbortGroupOnly ==
    /\ pc \in {"byHandle", "bySku", "list", "attach"}
    /\ call.state = "err"
    /\ pc' = "nextGroup"
    /\ gi' = gi + 1
    /\ call' = IdleCall
    /\ failure' = call.error
    /\ UNCHANGED << config, media, faults, fetchReqs, mediaByCode, groupVars, totals,
                    net, timer, mutations, applied, warnings, history, calls >>
    /\ UNCHANGED settings

\* .catch(err => { console.error(...); process.exit(1) })
Abort ==
    /\ pc \in {"byHandle", "bySku", "list", "attach"}
    /\ call.state = "err"
    /\ pc' = "failed"
    /\ failure' = call.error
    /\ UNCHANGED << config, media, faults, fetchReqs, mediaByCode, gi, groupVars, totals,
                    call, net, timer, mutations, applied, warnings, history, calls >>
    /\ UNCHANGED settings

(***************************************************************************)
(* gql's steps.                                                            *)
(***************************************************************************)
\* the Catalog Service after a create-media request that took effect
Attach(catalog, product, medias) ==
    [catalog EXCEPT ![product] = @ \o Alts(medias)]

\* the request in flight is answered and gql handles the answer
GqlResponse ==
    /\ call.state = "inflight"
    /\ \E r \in {CleanResponse(call.op)} \cup FaultResponses(call.op) :
          /\ r # CleanResponse(call.op) => faults < budget
          /\ faults' = IF r # CleanResponse(call.op) THEN faults + 1 ELSE faults
          /\ media' = IF r.effect THEN Attach(media, productId, chunk) ELSE media
          /\ applied' = IF r.effect
                        THEN [applied EXCEPT ![productId] = @ \cup Range(Alts(chunk))]
                        ELSE applied
          /\ LET outcome == GqlOutcome(r, call.attempt)
                 seen == [call EXCEPT !.resps = Append(@, [status |-> r.status, errors |-> r.errors]),
                                      !.applied = IF r.effect THEN @ + 1 ELSE @]
             IN  CASE outcome = "retry" ->
                        /\ call' = [seen EXCEPT !.state = "sleeping",
                                                !.waits = Append(@, BackoffDelay(call.attempt))]
                        /\ timer' = TRUE
                   [] outcome = "throw" ->
                        /\ call' = [seen EXCEPT !.state = "err", !.error = GqlError(r)]
                        /\ UNCHANGED timer
                   [] OTHER ->
                        /\ call' = [seen EXCEPT
                                      !.state = "ok",
                                      !.data = [DataFor(call.op, media) EXCEPT
                                                  !.userErrors = r.userErrors]]
                        /\ UNCHANGED timer
    /\ net' = net - 1
    /\ UNCHANGED << config, run, pc, fetchReqs, mediaByCode, gi, groupVars, totals,
                    mutations, warnings, failure, start, prev, calls >>
    /\ UNCHANGED settings

\* await sleep(wait); return gql(query, variables, attempt + 1)
GqlRetry ==
    /\ call.state = "sleeping"
    /\ timer
    /\ timer' = FALSE
    /\ call' = [call EXCEPT !.state = "inflight", !.attempt = @ + 1, !.reqs = @ + 1]
    /\ net' = net + 1
    /\ mutations' = IF call.op = "createMedia" THEN mutations + 1 ELSE mutations
    /\ UNCHANGED << config, media, faults, run, pc, fetchReqs, mediaByCode, gi, groupVars,
                    totals, applied, warnings, failure, start, prev, calls >>
    /\ UNCHANGED settings

(***************************************************************************)
(* The process is invoked again after it has exited.                       *)
(***************************************************************************)
Reinvoke ==
    /\ pc \in {"done", "failed"}
    /\ run + 1 \in Runs
    /\ run' = run + 1
    /\ prev' = [status |-> pc, attached |-> attachedTotal, skipped |-> skippedTotal,
                mutations |-> mutations, applied |-> applied, startEmpty |-> start.empty]
    /\ start' = StartOf(media)
    /\ pc' = "boot"
    /\ settings' = NoSettings
    /\ fetchReqs' = 0
    /\ mediaByCode' = << >>
    /\ gi' = 0
    /\ productId' = NoProduct
    /\ existingAlts' = { }
    /\ toAttach' = << >>
    /\ i' = 0
    /\ chunk' = << >>
    /\ attachedTotal' = 0
    /\ skippedTotal' = 0
    /\ call' = IdleCall
    /\ batches' = << >>
    /\ mutations' = 0
    /\ applied' = NoApplied
    /\ warnings' = { }
    /\ calls' = << >>
    /\ failure' = NoError
    /\ UNCHANGED << config, media, faults, net, timer >>

Next ==
    \/ Boot
    \/ StartFetch
    \/ FetchResponse
    \/ NextGroup
    \/ ByHandleReturn
    \/ BySkuReturn
    \/ ListReturn
    \/ LoopHead
    \/ AttachReturn
    \/ Attached
    \/ Abort
    \/ GqlResponse
    \/ GqlRetry
    \/ Reinvoke

Spec == Init /\ [][Next]_vars

\* gql under every MAX_RETRIES
SpecRpc == RpcInit /\ [][Next]_vars

\* every request is answered and every continuation runs
FairSpec == Spec /\ WF_vars(Next)

(***************************************************************************)
(* Properties.                                                             *)
(***************************************************************************)
TrimmedAlts(list) == { Trim(a) : a \in Range(list) }

\* findProductIdByHandleOrSku's result when both lookups are answered
ResolvedProduct(code) ==
    IF ProductByHandle(deriveHandleFromCode(code)) # NoProduct
    THEN ProductByHandle(deriveHandleFromCode(code))
    ELSE ProductBySku(code)

AllResolve(list) ==
    /\ Len(Normalize(list)) = Len(list)
    /\ \A f \in Range(Normalize(list)) :
          /\ extractCode(NameOrUrl(f)) # NoCode
          /\ ResolvedProduct(extractCode(NameOrUrl(f))) # NoProduct

RECURSIVE Concat(_)
Concat(ss) == IF ss = << >> THEN << >> ELSE Head(ss) \o Concat(Tail(ss))

CeilDiv(m, b) == (m + b - 1) \div b

Transient(r) == r.status \in RetryableStatus

ErrorsPayload(r) == IsOk(r.status) /\ r.errors

Last(s) == s[Len(s)]

Exited == pc \in {"done", "failed"}

AttachIssued == call.op = "createMedia" /\ call.state = "inflight"

\* C1: when an attach call is issued (its first request is in flight), no
\* attachment of the batch has an alt that, trimmed, equals the trimmed alt of a
\* media the target product holds at that moment.
C1_AttachIdempotent ==
    (AttachIssued /\ call.attempt = 1) =>
        \A m \in Range(chunk) : Trim(m.alt) \notin TrimmedAlts(media[productId])

\* C2, as stated: after two complete non-simulate runs over the same source, all
\* of whose N assets resolve, from empty media, the first run attached N and the
\* second issued no attach call and skipped all N -- for every N.
C2_TwoRunsAnyN ==
    ( /\ run = 2 /\ pc = "done" /\ prev.status = "done"
      /\ ~DRY_RUN /\ prev.startEmpty /\ AllResolve(source) ) =>
        /\ prev.attached = Len(source)
        /\ mutations = 0
        /\ attachedTotal = 0
        /\ skippedTotal = Len(source)

\* C2, amended: the same, for the runs in which every product's media list fits
\* in one page of the existing-media listing when the second run starts.
C2_TwoRunsWithinPage ==
    ( /\ run = 2 /\ pc = "done" /\ prev.status = "done"
      /\ ~DRY_RUN /\ prev.startEmpty /\ AllResolve(source)
      /\ start.fits ) =>
        /\ prev.attached = Len(source)
        /\ mutations = 0
        /\ attachedTotal = 0
        /\ skippedTotal = Len(source)

C2_Witness ==
    /\ run = 2 /\ pc = "done" /\ prev.status = "done"
    /\ ~DRY_RUN /\ prev.startEmpty /\ AllResolve(source) /\ start.fits
    /\ Len(source) = PageSize
    /\ prev.attached = PageSize
    /\ skippedTotal = PageSize

\* C3: the create-media mutation of one attach call takes effect on the product
\* at most once, whatever the attempts are answered.
C3_MutationAtMostOnce == call.op = "createMedia" => call.applied <= 1

\* C4: in a run that follows an aborted run, no attach request carries an
\* attachment that the aborted run already attached to that product.
C4_ReinvokeSendsNothingTwice ==
    (run = 2 /\ prev.status = "failed" /\ AttachIssued) =>
        \A m \in Range(chunk) : Trim(m.alt) \notin { Trim(a) : a \in prev.applied[productId] }

\* C5: a call that succeeds after k transient failures has issued k + 1 requests
\* and slept k times, the n-th sleep lasting base * 2^(n-1); no request is in
\* flight while a sleep is pending.
C5_RetryBackoff ==
    /\ ( /\ call.state = "ok"
         /\ \A n \in 1 .. Len(call.resps) - 1 : Transient(call.resps[n]) ) =>
            /\ call.reqs = Len(call.resps)
            /\ Len(call.waits) = Len(call.resps) - 1
            /\ \A n \in 1 .. Len(call.waits) : call.waits[n] = BaseDelay * Pow2(n - 1)
    /\ timer => net = 0

C5_Witness ==
    /\ call.state = "ok"
    /\ Len(call.resps) = 3
    /\ call.resps[1].status = 503 /\ call.resps[2].status = 503
    /\ call.reqs = 3
    /\ call.waits = << BaseDelay, BaseDelay * 2 >>

AllAttemptsFailed ==
    /\ call.state = "err"
    /\ \A n \in 1 .. Len(call.resps) : Transient(call.resps[n]) \/ ErrorsPayload(call.resps[n])

\* C6, as stated: a call whose every attempt fails retryably has issued exactly
\* MAX_RETRIES requests when it throws, for every MAX_RETRIES.
C6_ExhaustionAnyMax == AllAttemptsFailed => call.reqs = MAX_RETRIES

\* C6, amended: it has issued MAX_RETRIES requests, or one when MAX_RETRIES is
\* below 1; a call never issues more; the error carries the last answer; an
\* errors payload is retried like a transient status.
C6_Exhaustion ==
    /\ AllAttemptsFailed =>
          /\ call.reqs = Max(1, MAX_RETRIES)
          /\ Len(call.resps) = call.reqs
          /\ Len(call.waits) = call.reqs - 1
          /\ call.error = GqlError(Last(call.resps))
          /\ net = 0 /\ ~timer
    /\ call.reqs <= Max(1, MAX_RETRIES)

C6_Witness ==
    /\ AllAttemptsFailed
    /\ MAX_RETRIES = 3
    /\ call.reqs = 3
    /\ Transient(call.resps[1])
    /\ ErrorsPayload(call.resps[2])

\* C7: an answer with a non-success status outside {429, 500, 502, 503, 504}
\* makes the call throw at once -- no sleep and no request after it; when it
\* answers the first attempt the call has made exactly one request -- and the
\* error carries the status and the body.
C7_NonRetryableFailsAtOnce ==
    ( /\ call.resps # << >>
      /\ ~IsOk(Last(call.resps).status)
      /\ Last(call.resps).status \notin RetryableStatus ) =>
        /\ call.state = "err"
        /\ call.error = [from |-> "gql", status |-> Last(call.resps).status, payload |-> "body"]
        /\ call.reqs = Len(call.resps)
        /\ Len(call.waits) = Len(call.resps) - 1
        /\ net = 0 /\ ~timer

C7_Witness ==
    /\ call.state = "err"
    /\ Len(call.resps) = 1
    /\ call.resps[1].status = 404
    /\ call.reqs = 1 /\ call.waits = << >>
    /\ MAX_RETRIES = 3

\* C8: a run that fails on a transient status of the asset listing has retried
\* the listing request when more than one attempt is configured.
C8_FetchRetried ==
    ( /\ pc = "failed" /\ failure.from = "ghl"
      /\ failure.status \in RetryableStatus
      /\ MAX_RETRIES >= 2 ) => fetchReqs >= 2

C10_RunTerminates == <>Exited

\* the calls of one kind main has begun for a code in this run
CallsFor(op, code) == { k \in 1 .. Len(calls) : calls[k] = [op |-> op, code |-> code] }

\* C11: with the simulate-only flag set no create-media request is ever issued
\* and nothing is attached, whatever the diff is, while the lookups and the
\* existing-media listing are still made for every group, and the attached total
\* of the finished run is 0.
C11_DryRunNoAttach ==
    DRY_RUN =>
        /\ mutations = 0
        /\ call.op # "createMedia"
        /\ \A k \in 1 .. Len(calls) : calls[k].op # "createMedia"
        /\ applied = NoApplied
        /\ attachedTotal = 0
        /\ pc = "done" =>
              \A g \in Range(mediaByCode) :
                  /\ CallsFor("byHandle", g.code) # { }
                  /\ ResolvedProduct(g.code) # NoProduct =>
                        CallsFor("listMedia", g.code) # { }

C11_Witness ==
    /\ DRY_RUN /\ pc = "done"
    /\ toAttach # << >>
    /\ CallsFor("listMedia", "CS1") # { }
    /\ attachedTotal = 0 /\ mutations = 0

\* the groups of the run whose code neither lookup finds a product for
Unresolved == { k \in 1 .. Len(mediaByCode) : ResolvedProduct(mediaByCode[k].code) = NoProduct }

RECURSIVE SumLen(_, _)
SumLen(map, ks) ==
    IF ks = { } THEN 0
    ELSE LET k == CHOOSE x \in ks : TRUE
         IN  Len(map[k].medias) + SumLen(map, ks \ {k})

\* C12: for a group whose code neither the handle lookup nor the SKU lookup
\* finds a product for, no listing and no attach call is ever begun; once both
\* lookups have answered, a warning is recorded and main is at a later group; the
\* totals count only items of the other groups; and a run that meets such a
\* group can still end with success.
C12_MissingProductSkipped ==
    LET unresolved == Unresolved
    IN  /\ \A k \in unresolved :
              LET code == mediaByCode[k].code
              IN  /\ \A n \in 1 .. Len(calls) :
                        calls[n].code = code => calls[n].op \in {"byHandle", "bySku"}
                  /\ (k < gi \/ pc = "done") <=> code \in warnings
                  /\ code \in warnings =>
                        /\ CallsFor("byHandle", code) # { }
                        /\ CallsFor("bySku", code) # { }
        /\ \A c \in warnings : \E k \in unresolved : mediaByCode[k].code = c
        /\ attachedTotal + skippedTotal
              <= SumLen(mediaByCode, (1 .. Len(mediaByCode)) \ unresolved)
        /\ (pc = "failed" /\ gi \in unresolved) => failure.from = "gql"

C12_Witness ==
    /\ pc = "done"
    /\ Len(mediaByCode) = 3
    /\ mediaByCode[2].code = "CS3"
    /\ warnings = {"CS3"}
    /\ attachedTotal = 2
    /\ CallsFor("createMedia", "CS2") # { }

\* the call main's latest log entry stands for
LastCall == calls[Len(calls)]

\* C13: once a catalog call has thrown, the run issues no further request -- no
\* request is in flight, no sleep is pending, and the next step can only be a new
\* invocation of the process -- the summary is not reached and the process has
\* exited with a non-zero status; the failed call is the last one the run began.
C13_AbortIsFinal ==
    /\ failure # NoError => pc = "failed"
    /\ pc = "done" => failure = NoError
    /\ (pc = "failed" /\ failure.from \in {"gql", "mediaUserErrors"}) =>
          /\ net = 0 /\ ~timer
          /\ call.state # "inflight" /\ call.state # "sleeping"
          /\ calls # << >>
          /\ LastCall.code = CurrentCode
          /\ \A k \in gi + 1 .. Len(mediaByCode) :
                \A n \in 1 .. Len(calls) : calls[n].code # mediaByCode[k].code
          /\ ~ENABLED (StartFetch \/ FetchResponse \/ NextGroup \/ ByHandleReturn
                       \/ BySkuReturn \/ ListReturn \/ LoopHead \/ AttachReturn
                       \/ Attached \/ Abort \/ GqlResponse \/ GqlRetry)
    /\ (call.state = "err" /\ pc # "failed") =>
          /\ net = 0 /\ ~timer
          /\ ENABLED Abort
          /\ ~ENABLED (StartFetch \/ FetchResponse \/ NextGroup \/ ByHandleReturn
                       \/ BySkuReturn \/ ListReturn \/ LoopHead \/ AttachReturn
                       \/ Attached \/ GqlResponse \/ GqlRetry)

C13_Witness ==
    /\ pc = "failed" /\ failure.from = "gql"
    /\ Len(mediaByCode) = 3
    /\ gi = 2
    /\ attachedTotal = 1
    /\ LastCall.op = "bySku"

\* a create-media call has returned at the transport level with user errors
UserErrorsReturned ==
    /\ pc = "attach"
    /\ call.state = "ok"
    /\ call.data.userErrors

\* C14: when a create-media call returns with user errors, the next step fails
\* the run without adding the batch to the attached total and without a further
\* request; in the failed run the batches after the failing one were never
\* handed over, nothing is in flight and no step but a new invocation is left.
C14_UserErrorsFailBatch ==
    /\ [][ UserErrorsReturned =>
              /\ pc' = "failed"
              /\ failure'.from = "mediaUserErrors"
              /\ attachedTotal' = attachedTotal
              /\ mutations' = mutations
              /\ calls' = calls
              /\ net' = 0 ]_vars
    /\ []( (pc = "failed" /\ failure.from = "mediaUserErrors") =>
              /\ batches # << >>
              /\ chunk = Last(batches)
              /\ Concat(batches) = SubSeq(toAttach, 1, Len(Concat(batches)))
              /\ i = Len(Concat(batches)) - Len(chunk)
              /\ LastCall = [op |-> "createMedia", code |-> CurrentCode]
              /\ net = 0 /\ ~timer
              /\ ~ENABLED (StartFetch \/ FetchResponse \/ NextGroup \/ ByHandleReturn
                           \/ BySkuReturn \/ ListReturn \/ LoopHead \/ AttachReturn
                           \/ Attached \/ Abort \/ GqlResponse \/ GqlRetry) )

C14_Witness ==
    /\ pc = "failed" /\ failure.from = "mediaUserErrors"
    /\ Len(toAttach) = 3
    /\ Len(batches) = 2
    /\ attachedTotal = 1
    /\ mutations = 2

\* C15: in the order main begins its calls, a handle lookup is the first call
\* of its group; a SKU lookup comes right after the handle lookup of the same
\* code and only when that lookup finds no product; the listing follows the
\* lookup that found the product; the product main works on is the handle's
\* product, else the SKU's first match; and the result is null (a warning)
\* exactly for the processed groups whose two lookups both find nothing.
C15_ResolveOrder ==
    /\ \A n \in 1 .. Len(calls) :
          LET c == calls[n]
              byHandle == ProductByHandle(deriveHandleFromCode(c.code))
          IN  /\ c.op = "byHandle" => (n = 1 \/ calls[n - 1].code # c.code)
              /\ c.op = "bySku" =>
                    /\ n > 1
                    /\ calls[n - 1] = [op |-> "byHandle", code |-> c.code]
                    /\ byHandle = NoProduct
              /\ c.op = "listMedia" =>
                    /\ n > 1
                    /\ \/ calls[n - 1] = [op |-> "byHandle", code |-> c.code] /\ byHandle # NoProduct
                       \/ calls[n - 1] = [op |-> "bySku", code |-> c.code] /\ ProductBySku(c.code) # NoProduct
    /\ call.op \in {"byHandle", "bySku"} => LastCall = [op |-> call.op, code |-> CurrentCode]
    /\ pc \in {"list", "loop", "attach", "attached"} =>
          /\ productId # NoProduct
          /\ productId = ResolvedProduct(CurrentCode)
    /\ \A k \in 1 .. Len(mediaByCode) :
          mediaByCode[k].code \in warnings <=>
              /\ k < gi
              /\ ProductByHandle(deriveHandleFromCode(mediaByCode[k].code)) = NoProduct
              /\ ProductBySku(mediaByCode[k].code) = NoProduct

C15_Witness ==
    /\ pc = "done"
    /\ Len(mediaByCode) = 3
    /\ warnings = {"CS3"}
    /\ CallsFor("byHandle", "CS1") # { } /\ CallsFor("bySku", "CS1") = { }
    /\ CallsFor("byHandle", "CS2") # { } /\ CallsFor("bySku", "CS2") # { }
    /\ CallsFor("listMedia", "CS2") # { }
    /\ DRY_RUN

MediaKinds == {"IMAGE", "VIDEO", "EXTERNAL_VIDEO"}

\* the assets of the source a media input was made from
AssetsOf(m) == { f \in Range(Normalize(source)) : f.url = m.originalSource }

\* C16: every attachment has exactly one of the three kinds, and when the
\* declared type of its asset is image/ or video/ while the extension of its
\* file name belongs to the other kind's set, the kind is the declared one.
C16_ClassifyMimeFirst ==
    \A g \in Range(mediaByCode) : \A m \in Range(g.medias) : \A f \in AssetsOf(m) :
        /\ m.mediaContentType \in MediaKinds
        /\ (f.mime = "image/" /\ extOf(NameOf(f)) \in VIDEO_EXT) => m.mediaContentType = "IMAGE"
        /\ (f.mime = "video/" /\ extOf(NameOf(f)) \in IMAGE_EXT) => m.mediaContentType = "VIDEO"

\* main has just finished its Group step: no catalog call has begun yet
Grouped == pc \in {"nextGroup", "done"} /\ calls = << >>

\* the assets fetchGhlFiles returned
Files == Normalize(source)

CodeOfFile(f) == extractCode(NameOrUrl(f))

RECURSIVE Urls(_)
Urls(fs) == IF fs = << >> THEN << >> ELSE << Head(fs).url >> \o Urls(Tail(fs))

RECURSIVE Sources(_)
Sources(ms) == IF ms = << >> THEN << >> ELSE << Head(ms).originalSource >> \o Sources(Tail(ms))

\* C17: at the end of the Group step the groups have distinct codes and none is empty;
\* the attachments of a group are, in source order, those of the assets whose
\* code is the group's; an asset with a code is in exactly one place of exactly
\* one group; an asset without a code is in no group, and the step raises no
\* error.
C17_GroupingPartition ==
    Grouped =>
        /\ \A j, k \in 1 .. Len(mediaByCode) :
              mediaByCode[j].code = mediaByCode[k].code => j = k
        /\ \A k \in 1 .. Len(mediaByCode) :
              LET g == mediaByCode[k]
              IN  /\ g.code # NoCode
                  /\ g.medias # << >>
                  /\ Sources(g.medias)
                       = Urls(Select(Files, { f \in Range(Files) : CodeOfFile(f) = g.code }))
                  /\ \A n \in 1 .. Len(g.medias) :
                        \E f \in Range(Files) :
                            /\ f.url = g.medias[n].originalSource
                            /\ g.medias[n].alt = Trim(f.name)
        /\ \A f \in Range(Files) :
              LET places == { << k, n >> \in (1 .. Len(mediaByCode)) \X (1 .. Len(Files)) :
                                /\ n <= Len(mediaByCode[k].medias)
                                /\ mediaByCode[k].medias[n].originalSource = f.url }
              IN  IF CodeOfFile(f) = NoCode
                  THEN places = { }
                  ELSE /\ Cardinality(places) = 1
                       /\ \A pl \in places : mediaByCode[pl[1]].code = CodeOfFile(f)
        /\ failure = NoError

C17_Witness ==
    /\ Grouped
    /\ Len(Files) = 3
    /\ Len(mediaByCode) = 1
    /\ mediaByCode[1].code = "CS1"
    /\ Len(mediaByCode[1].medias) = 2
    /\ mediaByCode[1].medias[2].alt = << "cs1", "_b", ".mp4" >>
    /\ \E f \in Range(Files) : CodeOfFile(f) = NoCode

\* the first match of the code pattern in the asset's name, else in its URL
CodeInNameOrUrl(f) ==
    IF extractCode(f.name) # NoCode THEN extractCode(f.name) ELSE extractCode(f.url)

\* C18: at the end of the Group step every asset whose name or whose URL
\* matches the code pattern is in the group keyed by the uppercased match; only
\* an asset neither of which matches is in no group.
C18_CodeFromNameOrUrl ==
    Grouped =>
        \A f \in Range(Files) :
            CodeInNameOrUrl(f) # NoCode =>
                \E k \in 1 .. Len(mediaByCode) :
                    /\ mediaByCode[k].code = CodeInNameOrUrl(f)
                    /\ f.url \in Range(Sources(mediaByCode[k].medias))

\* the body is a list, and no element of it that has a location has a name (or,
\* without name, a URL) that starts with a code
NothingToDo ==
    /\ shape \in {"array", "files"}
    /\ \A f \in Range(Files) : Head(NameOrUrl(f)) \notin CodeTokens

\* C19: when the Asset Source returns no asset, or none with a code, the run
\* begins no catalog call and issues no catalog request, the only request ever
\* in flight is the listing, and once the listing is answered with success the
\* run has ended with success.
C19_NothingToDo ==
    NothingToDo =>
        /\ calls = << >>
        /\ call = IdleCall
        /\ mutations = 0
        /\ applied = NoApplied
        /\ net = (IF pc = "fetching" THEN 1 ELSE 0)
        /\ pc \in {"boot", "start", "fetching", "done", "failed"}
        /\ pc = "failed" => (failure.from = "ghl" /\ ~IsOk(failure.status))
        /\ pc = "done" => (fetchReqs = 1 /\ mediaByCode = << >> /\ failure = NoError)

C19_Witness ==
    /\ NothingToDo
    /\ pc = "done"
    /\ Files # << >>
    /\ fetchReqs = 1
    /\ calls = << >>

\* the Asset Source has answered the listing request with success
ListingAnswered ==
    /\ pc \notin {"boot", "start", "fetching"}
    /\ ~(pc = "failed" /\ failure.from = "config")
    /\ ~(pc = "failed" /\ failure.from = "ghl" /\ ~IsOk(failure.status))

\* the body is not a list, or an element of the list has no location
Malformed ==
    \/ shape \notin {"array", "files"}
    \/ \E k \in 1 .. Len(source) : source[k].url = << >>

\* C20: once the Asset Source has answered with a body that is not a list, or
\* with a list one of whose elements has no location, the run has failed with a
\* source-format error and no catalog call was begun.
C20_FormatErrorsFatal ==
    (ListingAnswered /\ Malformed) =>
        /\ pc = "failed"
        /\ failure = [from |-> "ghl", status |-> 200, payload |-> "shape"]
        /\ calls = << >>

\* the place of a code among the groups, in the order main visits them
GroupIndex(code) == CHOOSE k \in 1 .. Len(mediaByCode) : mediaByCode[k].code = code

\* the rank of a call within its group: resolve, then list, then attach
OpRank(op) ==
    CASE op = "byHandle" -> 1
      [] op = "bySku" -> 2
      [] op = "listMedia" -> 3
      [] OTHER -> 4

\* C21: at most one network request is in flight, and it is the listing request
\* or the request of the one call in progress; no request is in flight during a
\* backoff sleep; the calls main has begun are ordered by group, and within a
\* group by resolve, list, attach; the call in progress is the latest one begun
\* and belongs to the group main is at; a batch is handed over only after the
\* batches before it have returned.
C21_Sequential ==
    /\ net \in {0, 1}
    /\ net = 1 <=> (pc = "fetching" \/ call.state = "inflight")
    /\ ~(pc = "fetching" /\ call.state = "inflight")
    /\ timer => (net = 0 /\ call.state = "sleeping")
    /\ \A n \in 1 .. Len(calls) - 1 :
          \/ GroupIndex(calls[n].code) < GroupIndex(calls[n + 1].code)
          \/ /\ calls[n].code = calls[n + 1].code
             /\ OpRank(calls[n].op) < OpRank(calls[n + 1].op) \/ calls[n + 1].op = "createMedia"
    /\ call.state \in {"inflight", "sleeping", "err", "ok"} =>
          /\ LastCall = [op |-> call.op, code |-> CurrentCode]
          /\ \/ pc = (CASE call.op = "byHandle" -> "byHandle"
                        [] call.op = "bySku" -> "bySku"
                        [] call.op = "listMedia" -> "list"
                        [] OTHER -> "attach")
             \/ pc = "failed" /\ call.state = "err"
    /\ pc \in {"loop", "attach", "attached"} =>
          /\ Cardinality(CallsFor("createMedia", CurrentCode)) = Len(batches)
          /\ pc \in {"loop", "attached"} => call = IdleCall

C21_Witness ==
    /\ pc = "attach" /\ call.state = "inflight" /\ net = 1
    /\ gi = 2
    /\ Len(calls) = 8
    /\ Cardinality(CallsFor("createMedia", "CS1")) = 2

\* the names of a setting whose value is not blank, in list order
RECURSIVE NonBlankKeys(_)
NonBlankKeys(keys) ==
    IF keys = << >> THEN << >>
    ELSE IF \E k \in 1 .. Len(env[Head(keys)]) : env[Head(keys)][k] # Blank
    THEN << Head(keys) >> \o NonBlankKeys(Tail(keys))
    ELSE NonBlankKeys(Tail(keys))

\* value and source are those of the first name with a non-blank value, the
\* value without the blanks around it
ResolvedFrom(keys, value, src) ==
    IF NonBlankKeys(keys) = << >> THEN value = << >> /\ src = ""
    ELSE /\ src = Head(NonBlankKeys(keys))
         /\ value # << >>
         /\ Head(value) # Blank /\ Last(value) # Blank
         /\ \E a, b \in 0 .. Len(env[src]) :
               env[src] = [k \in 1 .. a |-> Blank] \o value \o [k \in 1 .. b |-> Blank]

RequiredSettings == { SHOP_KEYS, TOKEN_KEYS, ENDPOINT_KEYS }

\* C22: once the settings are resolved, each has the trimmed value of its first
\* name, in list order, whose value is not blank; when a required setting has
\* no such name the process has failed, before any network request, with an
\* error that names all the accepted names of a setting without value; and the
\* process fails so only then.
C22_ConfigBeforeIO ==
    /\ pc = "start" =>
          /\ settings.missing = << >>
          /\ ResolvedFrom(SHOP_KEYS, settings.SHOP, settings.SHOP_SRC)
          /\ ResolvedFrom(TOKEN_KEYS, settings.TOKEN, settings.TOKEN_SRC)
          /\ ResolvedFrom(ENDPOINT_KEYS, settings.GHL_FILES_ENDPOINT, settings.GHL_ENDPOINT_SRC)
          /\ ResolvedFrom(KEY_KEYS, settings.GHL_API_KEY, settings.GHL_KEY_SRC)
          /\ \A keys \in RequiredSettings : NonBlankKeys(keys) # << >>
    /\ failure.from = "config" =>
          /\ pc = "failed"
          /\ settings.missing \in RequiredSettings
          /\ NonBlankKeys(settings.missing) = << >>
          /\ fetchReqs = 0 /\ calls = << >> /\ net = 0 /\ mutations = 0
    /\ failure.from = "config" <=> settings.missing # << >>
    /\ pc = "boot" => (fetchReqs = 0 /\ calls = << >> /\ net = 0)

C22_Witness ==
    /\ pc = "failed" /\ failure.from = "config"
    /\ settings.missing = TOKEN_KEYS
    /\ settings.SHOP = << "other" >>
    /\ settings.SHOP_SRC = "SHOPIFY_SHOP_DOMAIN"
    /\ env["SHOPIFY_ADMIN_API_TOKEN"] = << Blank, Blank >>
    /\ fetchReqs = 0

Stars == << "*", "*", "*" >>

\* what the banner may show of a secret
Masked(secret, shown) ==
    IF Len(secret) > 6
    THEN /\ shown = SubSeq(secret, 1, 3) \o Stars \o SubSeq(secret, Len(secret) - 2, Len(secret))
         /\ Len(shown) = 9
         /\ \A k \in 1 .. Len(shown) :
               shown[k] \in {secret[1], secret[2], secret[3], "*", secret[Len(secret) - 2],
                             secret[Len(secret) - 1], secret[Len(secret)]}
         /\ \A k \in 4 .. Len(secret) - 3 : secret[k] \notin Range(shown)
    ELSE /\ shown = Stars
         /\ Range(shown) \cap Range(secret) = { }

\* C23: the banner shows of a secret longer than 6 characters its first three
\* and its last three characters around a fixed filler and none of the
\* characters between them, and of a secret of 6 characters or fewer the fixed
\* placeholder alone.
C23_MaskReveals ==
    pc = "start" =>
        /\ settings.TOKEN # << >>
        /\ Masked(settings.TOKEN, settings.tokenShown)
        /\ IF settings.GHL_KEY_SRC # ""
           THEN settings.GHL_API_KEY # << >> /\ Masked(settings.GHL_API_KEY, settings.keyShown)
           ELSE settings.keyShown = << "(not set)" >>

C23_Witness ==
    /\ pc = "start"
    /\ settings.TOKEN = << "a", "b", "c", "d", "e", "f", "g" >>
    /\ settings.tokenShown = << "a", "b", "c", "*", "*", "*", "e", "f", "g" >>
    /\ Len(settings.GHL_API_KEY) = 2
    /\ settings.keyShown = << "*", "*", "*" >>

\* the non-empty trimmed alts of the first n media of a product
TrimmedAltsOfFirst(product, n) ==
    { Trim(media[product][k]) : k \in 1 .. Min(n, Len(media[product])) } \ { << >> }

\* C24: the existing media of a group's product are listed by one call, begun
\* before the group's first attach call; the set it returned is the set of the
\* non-empty trimmed alts of the product's first page; the diff holds exactly
\* the group's attachments whose trimmed alt is not in that set, in their
\* order; the batches sent are a prefix of the diff and, when the batch loop
\* ends, the whole diff.
C24_DiffExactOnce ==
    /\ \A k \in 1 .. Len(mediaByCode) :
          Cardinality(CallsFor("listMedia", mediaByCode[k].code)) <= 1
    /\ \A n \in 1 .. Len(calls) :
          calls[n].op = "createMedia" =>
              \E m \in 1 .. n - 1 : calls[m] = [op |-> "listMedia", code |-> calls[n].code]
    /\ pc \in {"loop", "attach", "attached"} =>
          LET allMedias == mediaByCode[gi].medias
              sent == Concat(batches)
          IN  /\ Cardinality(CallsFor("listMedia", CurrentCode)) = 1
              /\ \E n \in 0 .. PageSize : existingAlts = TrimmedAltsOfFirst(productId, n)
              /\ \A m \in Range(allMedias) :
                    m \in Range(toAttach) <=> Trim(m.alt) \notin existingAlts
              /\ \A m \in Range(toAttach) : m \in Range(allMedias)
              /\ Len(toAttach) = Cardinality({ k \in 1 .. Len(allMedias) :
                                                 Trim(allMedias[k].alt) \notin existingAlts })
              /\ sent = SubSeq(toAttach, 1, Len(sent))
              /\ (pc = "loop" /\ i >= Len(toAttach)) => sent = toAttach

C24_Witness ==
    /\ pc = "loop" /\ i >= Len(toAttach)
    /\ existingAlts = { << "CS1", "_a", ".jpg" >>, << "old", ".jpg" >> }
    /\ Len(mediaByCode[gi].medias) = 2
    /\ Len(toAttach) = 1
    /\ Concat(batches) = toAttach

\* the groups of the run whose code resolves to a product
Resolved == (1 .. Len(mediaByCode)) \ Unresolved

\* the attachments of the current group whose trimmed alt is in the set alts
AlreadyPresent(alts) ==
    Cardinality({ k \in 1 .. Len(mediaByCode[gi].medias) :
                    Trim(mediaByCode[gi].medias[k].alt) \in alts })

\* an attach call has returned without error and main is about to count it
AttachReturned == pc = "attached"

\* the existing-media listing of the current group returns
ListingReturned == pc = "list" /\ call.state = "ok"

\* C25: within a run the attached total changes only when an attach call has
\* returned without error, and then grows by the number of items of that call;
\* the skipped total changes only when a group's listing returns, and then grows
\* by the number of the group's items whose trimmed alt is in the returned set,
\* with the simulate-only flag set too; and at the summary of a run with the
\* flag off the two totals add up to the number of attachments of the groups
\* that resolved to a product.
C25_SummaryConservation ==
    /\ [][ pc \notin {"done", "failed"} =>
              /\ AttachReturned =>
                    attachedTotal' = attachedTotal + Len(chunk)
              /\ attachedTotal' # attachedTotal => AttachReturned
              /\ ListingReturned =>
                    skippedTotal' = skippedTotal + AlreadyPresent(existingAlts')
              /\ skippedTotal' # skippedTotal => ListingReturned ]_vars
    /\ []( pc = "done" =>
              /\ ~DRY_RUN => attachedTotal + skippedTotal = SumLen(mediaByCode, Resolved)
              /\ DRY_RUN => attachedTotal = 0 /\ skippedTotal <= SumLen(mediaByCode, Resolved) )

C25_Witness ==
    /\ pc = "done"
    /\ ~DRY_RUN
    /\ attachedTotal = 1
    /\ skippedTotal = 1
    /\ Unresolved # { }
    /\ SumLen(mediaByCode, Resolved) = 2

\* the trimmed alts the run has already had applied to a product
SentAlts(product) == { Trim(a) : a \in applied[product] }

\* C26: when an attach call is issued, no two attachments of its batch have the
\* same trimmed alt, and none has the trimmed alt of an attachment the same run
\* has already sent to the same product, in an earlier batch or an earlier group.
C26_NoDuplicateAltInRun ==
    (AttachIssued /\ call.attempt = 1) =>
        /\ \A a, b \in 1 .. Len(chunk) :
              a # b => Trim(chunk[a].alt) # Trim(chunk[b].alt)
        /\ \A m \in Range(chunk) : Trim(m.alt) \notin SentAlts(productId)

=============================================================================
